---- MODULE Spec2Model ----
(***************************************************************************)
(* Model of tile/base/buffer.h: View, Buffer, and the vector-backed        *)
(* SimpleBuffer with its SimpleView.                                       *)
(*                                                                         *)
(* heap    the objects behind BufferPtr: per address the object's state,   *)
(*         its dynamic type, its std::vector<char> data_ and the           *)
(*         shared_ptr use count.  Addresses are never handed out twice.    *)
(* views   the View objects held through std::unique_ptr<View>: the raw    *)
(*         data_ pointer (an address of heap, 0 is nullptr) and size_.     *)
(* ret     what the last call returned or threw.                           *)
(* hist    history of each buffer: the size and bytes it was constructed   *)
(*         with, the bytes stored through Views since, and whether a       *)
(*         WriteBack followed the last store; read by the properties       *)
(*         only, never by an action's guard.                               *)
(* wbDone  history of each View: WriteBack has been invoked on it.         *)
(***************************************************************************)
EXTENDS Integers, Sequences, FiniteSets, TLC

VARIABLES heap, views, ret, hist, wbDone

vars == <<heap, views, ret, hist, wbDone>>

\* ---------------------------------------------------------------- bounds
MaxBufs == 2
MaxViews == 2
MaxSize == 1
MaxByte == 1
MaxRefs == 2

Addr == 1..MaxBufs
ViewId == 1..MaxViews
Byte == 0..MaxByte
\* nullptr: the null BufferPtr, the null View pointer and View::data_ of an unmapped View
NoAddr == 0

\* the buffer sizes and contents callers construct buffers with
Sizes == 1..MaxSize
Zeros(n) == [i \in 1..n |-> 0]
ByteSeqs == UNION {[1..n -> Byte] : n \in Sizes}

\* ---------------------------------------------------------------- records
NoObject == [st |-> "free", kind |-> "none", data_ |-> <<>>, refs |-> 0]
Destroyed == [st |-> "dead", kind |-> "none", data_ |-> <<>>, refs |-> 0]
NoHist == [n |-> 0, touch |-> "none", expect |-> <<>>]
\* n: the size at construction.
\* touch: "zeroed" (sized constructor, no store yet), "copied" (constructed
\* from bytes, no store yet), "cloned" (made by Clone, no store yet),
\* "written" (a View stored into it), "committed" (stored into, then
\* WriteBack on a View of it, no store since).
\* expect: the construction bytes overlaid with every byte stored since.
NewHist(touch, d) == [n |-> Len(d), touch |-> touch, expect |-> d]

\* View::View(): data_ = nullptr, size_ = 0
NullView == [held |-> FALSE, data_ |-> NoAddr, size_ |-> 0]
\* View::View(char* data, size_t size)
SimpleView(data, size) == [held |-> TRUE, data_ |-> data, size_ |-> size]

Result(op, buf, view, out, exc, ready) ==
  [op |-> op, buf |-> buf, view |-> view, out |-> out, exc |-> exc, ready |-> ready]
\* a call that returns nothing (constructors, BufferPtr copies, View members)
Void == Result("void", NoAddr, NoAddr, NoAddr, "none", FALSE)

\* ---------------------------------------------------------------- helpers
Live(b) == b \in Addr /\ heap[b].st = "live"
IsSimple(b) == Live(b) /\ heap[b].kind = "SimpleBuffer"
FreeAddrs == {a \in Addr : heap[a].st = "free"}
FreeViews == {v \in ViewId : ~views[v].held}
Min(S) == CHOOSE x \in S : \A y \in S : x <= y
Range(f) == {f[i] : i \in DOMAIN f}

\* Buffer::size() of SimpleBuffer
size(b) == Len(heap[b].data_)

\* the storage a View's byte range points into still exists
Mapped(v) == views[v].held /\ Live(views[v].data_)

\* View::str(): the bytes [data_, data_ + size_)
str(v) == [i \in 1..views[v].size_ |-> heap[views[v].data_].data_[i]]

\* the View each mapping call constructs
MapCurrentView(b) == SimpleView(b, Len(heap[b].data_))
MapDiscardView(b) == SimpleView(b, Len(heap[b].data_))

Init ==
  /\ heap = [a \in Addr |-> NoObject]
  /\ views = [v \in ViewId |-> NullView]
  /\ ret = Void
  /\ hist = [a \in Addr |-> NoHist]
  /\ wbDone = [v \in ViewId |-> FALSE]

\* ---------------------------------------------------------------- construction
\* variant: the sized constructor reserves capacity without creating elements
SimpleBuffer_ReserveOnly(n) ==
  /\ FreeAddrs # {}
  /\ LET a == Min(FreeAddrs) IN
       /\ heap' = [heap EXCEPT ![a] = [st |-> "live", kind |-> "SimpleBuffer",
                                       data_ |-> <<>>, refs |-> 1]]
       /\ hist' = [hist EXCEPT ![a] = NewHist("zeroed", Zeros(n))]
       /\ ret' = Void
  /\ UNCHANGED <<views, wbDone>>

\* std::make_shared<SimpleBuffer>(size): data_(size, '\0')
SimpleBuffer_Sized(n) ==
  /\ FreeAddrs # {}
  /\ LET a == Min(FreeAddrs) IN
       /\ heap' = [heap EXCEPT ![a] = [st |-> "live", kind |-> "SimpleBuffer",
                                       data_ |-> Zeros(n), refs |-> 1]]
       /\ hist' = [hist EXCEPT ![a] = NewHist("zeroed", Zeros(n))]
       /\ ret' = Void
  /\ UNCHANGED <<views, wbDone>>

\* std::make_shared<SimpleBuffer>(data): data_(data)
SimpleBuffer_FromData(d) ==
  /\ FreeAddrs # {}
  /\ LET a == Min(FreeAddrs) IN
       /\ heap' = [heap EXCEPT ![a] = [st |-> "live", kind |-> "SimpleBuffer",
                                       data_ |-> d, refs |-> 1]]
       /\ hist' = [hist EXCEPT ![a] = NewHist("copied", d)]
       /\ ret' = Void
  /\ UNCHANGED <<views, wbDone>>

\* a Buffer of a backend that does not override Clone, holding bytes d
BackendBuffer(d) ==
  /\ FreeAddrs # {}
  /\ LET a == Min(FreeAddrs) IN
       /\ heap' = [heap EXCEPT ![a] = [st |-> "live", kind |-> "Buffer",
                                       data_ |-> d, refs |-> 1]]
       /\ hist' = [hist EXCEPT ![a] = NewHist("copied", d)]
       /\ ret' = Void
  /\ UNCHANGED <<views, wbDone>>

\* ---------------------------------------------------------------- shared ownership
\* copying a BufferPtr
CopyRef(b) ==
  /\ Live(b)
  /\ heap[b].refs < MaxRefs
  /\ heap' = [heap EXCEPT ![b].refs = @ + 1]
  /\ ret' = Void
  /\ UNCHANGED <<views, hist, wbDone>>

\* a holder drops its BufferPtr; the last one runs ~Buffer and frees data_
Release(b) ==
  /\ Live(b)
  /\ IF heap[b].refs = 1
       THEN /\ heap' = [heap EXCEPT ![b] = Destroyed]
            /\ hist' = [hist EXCEPT ![b] = NoHist]
       ELSE /\ heap' = [heap EXCEPT ![b].refs = @ - 1]
            /\ UNCHANGED hist
  /\ ret' = Void
  /\ UNCHANGED <<views, wbDone>>

\* ---------------------------------------------------------------- Clone
\* variant: Clone hands out shared_from_this() instead of a copy
Clone_Shallow(b) ==
  /\ IsSimple(b)
  /\ heap[b].refs < MaxRefs
  /\ heap' = [heap EXCEPT ![b].refs = @ + 1]
  /\ ret' = Result("Clone", b, NoAddr, b, "none", FALSE)
  /\ UNCHANGED <<views, hist, wbDone>>

\* variant: Clone moves data_ into the new buffer instead of copying it
Clone_Move(b) ==
  /\ IsSimple(b)
  /\ FreeAddrs # {}
  /\ LET a == Min(FreeAddrs) IN
       /\ heap' = [heap EXCEPT ![a] = [st |-> "live", kind |-> "SimpleBuffer",
                                       data_ |-> heap[b].data_, refs |-> 1],
                               ![b].data_ = <<>>]
       /\ hist' = [hist EXCEPT ![a] = NewHist("cloned", heap[b].data_)]
       /\ ret' = Result("Clone", b, NoAddr, a, "none", FALSE)
  /\ UNCHANGED <<views, wbDone>>

\* SimpleBuffer::Clone(): std::make_shared<SimpleBuffer>(data_)
SimpleBuffer_Clone(b) ==
  /\ IsSimple(b)
  /\ FreeAddrs # {}
  /\ LET a == Min(FreeAddrs) IN
       /\ heap' = [heap EXCEPT ![a] = [st |-> "live", kind |-> "SimpleBuffer",
                                       data_ |-> heap[b].data_, refs |-> 1]]
       /\ hist' = [hist EXCEPT ![a] = NewHist("cloned", heap[b].data_)]
       /\ ret' = Result("Clone", b, NoAddr, a, "none", FALSE)
  /\ UNCHANGED <<views, wbDone>>

\* variant: the default Clone returns a null BufferPtr instead of throwing
Buffer_Clone_Null(b) ==
  /\ Live(b) /\ heap[b].kind = "Buffer"
  /\ ret' = Result("Clone", b, NoAddr, NoAddr, "none", FALSE)
  /\ UNCHANGED <<heap, views, hist, wbDone>>

\* Buffer::Clone(): throw std::runtime_error("Not implemented")
Buffer_Clone(b) ==
  /\ Live(b) /\ heap[b].kind = "Buffer"
  /\ ret' = Result("Clone", b, NoAddr, NoAddr, "Not implemented", FALSE)
  /\ UNCHANGED <<heap, views, hist, wbDone>>

\* ---------------------------------------------------------------- mapping
\* variant: mapping is exclusive, the future fails while another View is live
MapCurrent_Exclusive(b) ==
  /\ IsSimple(b)
  /\ FreeViews # {}
  /\ LET v == Min(FreeViews) IN
       IF \E w \in ViewId : views[w].held /\ views[w].data_ = b
         THEN /\ ret' = Result("MapCurrent", b, NoAddr, NoAddr, "busy", TRUE)
              /\ UNCHANGED <<views, wbDone>>
         ELSE /\ views' = [views EXCEPT ![v] = SimpleView(b, size(b))]
              /\ wbDone' = [wbDone EXCEPT ![v] = FALSE]
              /\ ret' = Result("MapCurrent", b, v, NoAddr, "none", TRUE)
  /\ UNCHANGED <<heap, hist>>

\* SimpleBuffer::MapCurrent(): new SimpleView(data_.data(), data_.size()),
\* returned in boost::make_ready_future
MapCurrent(b) ==
  /\ IsSimple(b)
  /\ FreeViews # {}
  /\ LET v == Min(FreeViews) IN
       /\ views' = [views EXCEPT ![v] = MapCurrentView(b)]
       /\ wbDone' = [wbDone EXCEPT ![v] = FALSE]
       /\ ret' = Result("MapCurrent", b, v, NoAddr, "none", TRUE)
  /\ UNCHANGED <<heap, hist>>

\* variant: MapDiscard clears the buffer's contents before mapping it
MapDiscard_Zero(b) ==
  /\ IsSimple(b)
  /\ FreeViews # {}
  /\ LET v == Min(FreeViews) IN
       /\ views' = [views EXCEPT ![v] = SimpleView(b, size(b))]
       /\ wbDone' = [wbDone EXCEPT ![v] = FALSE]
       /\ ret' = Result("MapDiscard", b, v, NoAddr, "none", FALSE)
  /\ heap' = [heap EXCEPT ![b].data_ = Zeros(size(b))]
  /\ UNCHANGED hist

\* variant: MapDiscard maps a View that leaves out the last byte
MapDiscard_Short(b) ==
  /\ IsSimple(b)
  /\ FreeViews # {}
  /\ LET v == Min(FreeViews) IN
       /\ views' = [views EXCEPT ![v] =
                      SimpleView(b, IF size(b) = 0 THEN 0 ELSE size(b) - 1)]
       /\ wbDone' = [wbDone EXCEPT ![v] = FALSE]
       /\ ret' = Result("MapDiscard", b, v, NoAddr, "none", FALSE)
  /\ UNCHANGED <<heap, hist>>

\* SimpleBuffer::MapDiscard(): std::make_unique<SimpleView>(data_.data(), data_.size())
MapDiscard(b) ==
  /\ IsSimple(b)
  /\ FreeViews # {}
  /\ LET v == Min(FreeViews) IN
       /\ views' = [views EXCEPT ![v] = MapDiscardView(b)]
       /\ wbDone' = [wbDone EXCEPT ![v] = FALSE]
       /\ ret' = Result("MapDiscard", b, v, NoAddr, "none", FALSE)
  /\ UNCHANGED <<heap, hist>>

\* ---------------------------------------------------------------- View
\* variant: operator[] yields a copy of the byte, the store does not reach data_
Write_Lost(v, pos, c) ==
  /\ Mapped(v)
  /\ pos < views[v].size_
  /\ LET b == views[v].data_ IN
       /\ hist' = [hist EXCEPT ![b].touch = "written", ![b].expect[pos + 1] = c]
       /\ ret' = Void
  /\ UNCHANGED <<heap, views, wbDone>>

\* v[pos] = c through char& View::operator[](size_t pos): data_[pos] = c.
\* A caller may use the reference only while the range [data_, data_ + size_)
\* exists and for pos < size_; other accesses are outside the operator's domain.
Write(v, pos, c) ==
  /\ Mapped(v)
  /\ pos < views[v].size_
  /\ LET b == views[v].data_ IN
       /\ heap' = [heap EXCEPT ![b].data_[pos + 1] = c]
       /\ hist' = [hist EXCEPT ![b].touch = "written", ![b].expect[pos + 1] = c]
       /\ ret' = Void
  /\ UNCHANGED <<views, wbDone>>

\* variant: WriteBack unmaps the View (set_contents(nullptr, 0))
WriteBack_Unmap(v) ==
  /\ views[v].held
  /\ wbDone' = [wbDone EXCEPT ![v] = TRUE]
  /\ hist' = IF Mapped(v) /\ hist[views[v].data_].touch = "written"
               THEN [hist EXCEPT ![views[v].data_].touch = "committed"]
               ELSE hist
  /\ views' = [views EXCEPT ![v] = [held |-> TRUE, data_ |-> NoAddr, size_ |-> 0]]
  /\ ret' = Result("WriteBack", NoAddr, v, NoAddr, "none", FALSE)
  /\ UNCHANGED heap

\* SimpleView::WriteBack(ctx): empty body; only the history records the call
WriteBack(v) ==
  /\ views[v].held
  /\ wbDone' = [wbDone EXCEPT ![v] = TRUE]
  /\ hist' = IF Mapped(v) /\ hist[views[v].data_].touch = "written"
               THEN [hist EXCEPT ![views[v].data_].touch = "committed"]
               ELSE hist
  /\ ret' = Result("WriteBack", NoAddr, v, NoAddr, "none", FALSE)
  /\ UNCHANGED <<heap, views>>

\* the caller destroys its std::unique_ptr<View>: View::~View()
DeleteView(v) ==
  /\ views[v].held
  /\ views' = [views EXCEPT ![v] = NullView]
  /\ wbDone' = [wbDone EXCEPT ![v] = FALSE]
  /\ ret' = Void
  /\ UNCHANGED <<heap, hist>>

\* ---------------------------------------------------------------- properties
Maps == {"MapCurrent", "MapDiscard"}
Stored(b) == hist[b].touch \in {"written", "committed"}

\* C1: a View mapped (by MapCurrent or MapDiscard) on a buffer whose last
\* store was followed by a WriteBack reads exactly the bytes stored.
C1_RoundTrip ==
  (ret.op \in Maps /\ ret.exc = "none" /\ hist[ret.buf].touch = "committed")
    => /\ views[ret.view].held
       /\ views[ret.view].size_ = hist[ret.buf].n
       /\ str(ret.view) = hist[ret.buf].expect

C1_Witness ==
  /\ ret.op = "MapDiscard"
  /\ hist[ret.buf].touch = "committed"
  /\ 1 \in Range(hist[ret.buf].expect)
  /\ str(ret.view) = hist[ret.buf].expect

\* C2: Clone returns a new buffer of the same size and bytes as the original
\* at the call and leaves the original as it was; afterwards a store through
\* a View changes the buffer the View was mapped on and no other buffer.
C2_CloneIndependence ==
  [][ /\ (ret'.op = "Clone" /\ ret'.exc = "none") =>
           /\ ret'.out \in Addr \ {ret'.buf}
           /\ heap[ret'.out].st = "free"
           /\ heap'[ret'.out].st = "live"
           /\ Len(heap'[ret'.out].data_) = Len(heap[ret'.buf].data_)
           /\ heap'[ret'.out].data_ = heap[ret'.buf].data_
           /\ heap'[ret'.buf] = heap[ret'.buf]
      /\ \A v \in ViewId, pos \in 0..(MaxSize - 1), c \in Byte :
           Write(v, pos, c) =>
             \A x \in Addr \ {views[v].data_} : heap'[x] = heap[x]
      /\ \A x \in Addr :
           (heap'[x].st = "live" /\ hist'[x].touch = "cloned")
             => heap'[x].data_ = hist'[x].expect
    ]_vars

C2_Witness ==
  \E b, b2 \in Addr :
    /\ b # b2 /\ IsSimple(b) /\ IsSimple(b2)
    /\ hist[b2].touch = "cloned" /\ Stored(b)
    /\ size(b) = size(b2)
    /\ heap[b].data_ # heap[b2].data_

\* C3: a held View on which WriteBack has not been invoked points into
\* storage that exists, whatever the holders of the buffer have done.
C3_ViewValidUntilWriteBack ==
  \A v \in ViewId :
    (views[v].held /\ ~wbDone[v])
      => /\ Live(views[v].data_)
         /\ views[v].size_ <= size(views[v].data_)

\* C4: the size of a SimpleBuffer is the size it was constructed with.
C4_SizeFixed ==
  \A b \in Addr : IsSimple(b) => size(b) = hist[b].n

C4_Witness ==
  \E b, b2 \in Addr, v \in ViewId :
    /\ IsSimple(b) /\ hist[b].touch = "committed" /\ size(b) = MaxSize
    /\ Mapped(v) /\ views[v].data_ = b
    /\ IsSimple(b2) /\ hist[b2].touch = "cloned"
    /\ ret.op \in Maps

\* C5: a View is no larger than the buffer it was mapped on, and MapDiscard
\* on a buffer constructed with a size and not stored into reads n zero bytes.
C5_ViewSizeAndZeroInit ==
  /\ \A v \in ViewId : Mapped(v) => views[v].size_ <= size(views[v].data_)
  /\ (ret.op = "MapDiscard" /\ hist[ret.buf].touch = "zeroed")
       => /\ views[ret.view].size_ = hist[ret.buf].n
          /\ str(ret.view) = Zeros(hist[ret.buf].n)

C5_Witness ==
  /\ ret.op = "MapDiscard"
  /\ hist[ret.buf].touch = "zeroed"
  /\ hist[ret.buf].n = MaxSize
  /\ str(ret.view) = Zeros(MaxSize)

\* C6: Clone on a Buffer whose backend does not override it throws
\* "Not implemented", an outcome no other call produces, returns no buffer
\* and changes neither the buffer nor anything else.
C6_DefaultCloneThrows ==
  [][ /\ (ret'.op = "Clone" /\ heap[ret'.buf].kind = "Buffer") =>
           /\ ret'.exc = "Not implemented"
           /\ ret'.out = NoAddr
           /\ heap' = heap
           /\ views' = views
      /\ (ret'.exc # "none") =>
           /\ ret'.exc = "Not implemented"
           /\ ret'.op = "Clone"
           /\ heap[ret'.buf].kind = "Buffer"
    ]_vars

C6_Witness ==
  /\ ret.op = "Clone"
  /\ ret.exc = "Not implemented"
  /\ Live(ret.buf) /\ heap[ret.buf].kind = "Buffer"
  /\ 1 \in Range(heap[ret.buf].data_)

\* C7: MapCurrent can be called on every SimpleBuffer, also while Views of it
\* are held, and returns a completed future holding a View of the whole
\* buffer that reads the buffer's bytes.
C7_MapCurrentReady ==
  /\ \A b \in Addr : (IsSimple(b) /\ FreeViews # {}) => ENABLED MapCurrent(b)
  /\ ret.op = "MapCurrent" =>
       /\ ret.ready
       /\ ret.exc = "none"
       /\ ret.view \in ViewId
       /\ views[ret.view] = SimpleView(ret.buf, size(ret.buf))
       /\ str(ret.view) = heap[ret.buf].data_

C7_Witness ==
  /\ ret.op = "MapCurrent" /\ ret.ready
  /\ \E w \in ViewId \ {ret.view} : views[w].held /\ views[w].data_ = ret.buf
  /\ Stored(ret.buf)
  /\ 1 \in Range(str(ret.view))

\* C8: MapDiscard yields the View MapCurrent yields in the same state and
\* leaves the buffer's bytes as they were.
C8_MapDiscardIsMapCurrent ==
  [][ ret'.op = "MapDiscard" =>
        /\ ret'.exc = "none"
        /\ ret'.view \in ViewId
        /\ views'[ret'.view] = MapCurrentView(ret'.buf)
        /\ \A w \in ViewId \ {ret'.view} : views'[w] = views[w]
        /\ heap' = heap
    ]_vars

C8_Witness ==
  /\ ret.op = "MapDiscard"
  /\ Stored(ret.buf)
  /\ 1 \in Range(heap[ret.buf].data_)
  /\ str(ret.view) = heap[ret.buf].data_

\* C9: WriteBack changes no buffer and no View, the one it is called on
\* included, however often it is called.
C9_WriteBackNoOp ==
  [][ ret'.op = "WriteBack" => (heap' = heap /\ views' = views) ]_vars

C9_Witness ==
  /\ ret.op = "WriteBack"
  /\ Mapped(ret.view) /\ wbDone[ret.view]
  /\ \E w \in ViewId \ {ret.view} :
       views[w].held /\ views[w].data_ = views[ret.view].data_
  /\ 1 \in Range(str(ret.view))

\* C10: every held View of a buffer reads the bytes last stored through any
\* View of that buffer, whether or not WriteBack was called and whether or
\* not the storing View still exists.
C10_ViewsAlias ==
  \A w \in ViewId :
    Mapped(w) => /\ views[w].size_ = size(views[w].data_)
                 /\ str(w) = hist[views[w].data_].expect

C10_Witness ==
  \E v, w \in ViewId :
    /\ v # w /\ Mapped(v) /\ Mapped(w)
    /\ views[v].data_ = views[w].data_
    /\ ~wbDone[v] /\ ~wbDone[w]
    /\ hist[views[v].data_].touch = "written"
    /\ 1 \in Range(str(w))
    /\ ret.op = "void"

Next ==
  \/ \E n \in Sizes : SimpleBuffer_Sized(n)
  \/ \E d \in ByteSeqs : SimpleBuffer_FromData(d)
  \/ \E d \in ByteSeqs : BackendBuffer(d)
  \/ \E b \in Addr : CopyRef(b)
  \/ \E b \in Addr : Release(b)
  \/ \E b \in Addr : SimpleBuffer_Clone(b)
  \/ \E b \in Addr : Buffer_Clone(b)
  \/ \E b \in Addr : MapCurrent(b)
  \/ \E b \in Addr : MapDiscard(b)
  \/ \E v \in ViewId, pos \in 0..(MaxSize - 1), c \in Byte : Write(v, pos, c)
  \/ \E v \in ViewId : WriteBack(v)
  \/ \E v \in ViewId : DeleteView(v)

Spec == Init /\ [][Next]_vars
====
